---- MODULE Spec2Model ----
(***************************************************************************)
(* A model of web-audio-recorder: the WebAudioRecorder capture session     *)
(* (start / frame callback / stop with its grace delay / cancel / cleanup) *)
(* bound to one of the three AudioEncoder variants (WavAudioEncoder,       *)
(* OggVorbisEncoderWrapper, Mp3LameEncoderWrapper).                        *)
(*                                                                         *)
(* JavaScript runs each handler to completion, so every action below is    *)
(* one synchronous run of a method or callback.  The only suspension point *)
(* of the recorder is the `await` of the 50 ms timer inside stop(): stop() *)
(* is therefore two actions, StopCall (up to the await) and StopResume     *)
(* (after it), and the suspended calls wait in `pending` in timer order.   *)
(*                                                                         *)
(* A PCM channel is abstracted to the index of the source channel its      *)
(* samples were copied from (0 for a synthesized silent channel); a frame  *)
(* is a sequence of channels.  The user callbacks (onComplete,             *)
(* onDataAvailable, onError) are taken to return normally.                 *)
(*                                                                         *)
(* A second specification, EncoderSpec, drives one encoder instance on its *)
(* own through encode / finish / cancel with frames of real samples (a     *)
(* channel is then the sequence of its samples), down to the bytes of the  *)
(* file WavAudioEncoder writes and the buffers a wrapper passes to its     *)
(* external codec.                                                         *)
(***************************************************************************)
EXTENDS Integers, Sequences, FiniteSets, TLC

\* ---------------------------------------------------------------- bounds

\* Frames one encoder instance accepts before the model stops delivering more.
MaxFrames == 2
\* stop() calls that may be suspended in their grace interval at the same time.
MaxPending == 2
\* Script processors that may be connected at the same time.
MaxProcs == 2
\* Largest channel count a delivered frame may carry.
MaxFrameChannels == 3

\* ------------------------------------------------------ program constants

\* protected bufferSize: number = 4096
BufferSize == 4096
\* The sample rates a session is constructed with (options.sampleRate).
SampleRates == {8000}
\* The channel counts a session is configured with (options.numChannels || 2).
ConfiguredChannels == {1, 2}
\* settings.channelCount of the stream's first audio track; 0: not available.
ReportedChannels == {0, 1, 2}
EncoderKinds == {"wav", "ogg", "mp3"}

INACTIVE == "inactive"
RECORDING == "recording"
PAUSED == "paused"
PROCESSING == "processing"
COMPLETE == "complete"
ERROR == "error"
RecorderStatus == {INACTIVE, RECORDING, PAUSED, PROCESSING, COMPLETE, ERROR}

\* A silent channel: new Float32Array(inputBuffer.length).
Silence == 0
\* this.stream = null, this.scriptProcessor = null.
NoStream == [reported |-> -1]
NoProc == 0
\* No frame was handed to encoder.encode().
NoFrame == <<-1>>

\* ------------------------------------------------------------- sequences

Last(s) == s[Len(s)]
Take(s, k) == SubSeq(s, 1, IF k < Len(s) THEN k ELSE Len(s))
Has(s, x) == \E i \in 1..Len(s) : s[i] = x
Count(s, x) == Cardinality({i \in 1..Len(s) : s[i] = x})
\* The position of the first x in s (0 when there is none).
Pos(s, x) == IF Has(s, x) THEN CHOOSE i \in 1..Len(s) : s[i] = x /\ \A j \in 1..(i-1) : s[j] # x ELSE 0

\* while (buffers.length < m && buffers.length > 0) buffers.push(copy of last)
RECURSIVE PadLast(_, _)
PadLast(b, m) == IF Len(b) < m /\ Len(b) > 0 THEN PadLast(Append(b, Last(b)), m) ELSE b

\* while (buffers.length < m) push(copy of last, or a silent channel when empty)
RECURSIVE PadLastOrSilence(_, _)
PadLastOrSilence(b, m) ==
  IF Len(b) < m
    THEN PadLastOrSilence(Append(b, IF Len(b) > 0 THEN Last(b) ELSE Silence), m)
    ELSE b

\* A frame as the capture source delivers it: n channels, channel i tagged i.
SourceFrame(n) == [i \in 1..n |-> i]

\* ------------------------------------------------ recorder: frame callback

\* A guard that also lets frames through while a stop() is being processed.
FrameAcceptedWhileProcessing(st) == st = RECORDING \/ st = PROCESSING

\* The guard at the top of onaudioprocess: a frame is processed only while
\* the session is RECORDING.
FrameAccepted(st) == st = RECORDING

\* The channel adjustment of onaudioprocess: `frame` is what the input buffer
\* holds (actualChannels = Len(frame)), m is this.numChannels.
RecorderAdjust(frame, m) ==
  LET n == Len(frame) IN
  IF n = m THEN frame
  ELSE IF n = 1 /\ m = 2 THEN Append(frame, frame[1])
  ELSE IF n = 2 /\ m = 1 THEN Take(frame, 1)
  ELSE IF n < m THEN PadLast(frame, m)
  ELSE Take(frame, m)

\* The "final critical validation": duplicate the last channel (or create a
\* silent one) until m channels exist, then drop the extra ones.
RecorderFix(b, m) ==
  IF Len(b) # m THEN Take(PadLastOrSilence(b, m), m) ELSE b

\* The buffers onaudioprocess ends up with for a frame and this.numChannels.
RecorderAdapt(frame, m) == RecorderFix(RecorderAdjust(frame, m), m)

\* ------------------------------------------------------------- encoders
\* An encoder instance: kind, the sample rate and channel count it was
\* constructed with, `alive' (the wrapper still holds its codec instance;
\* always TRUE for WAV), and its running totals (for WAV, bufferCount is the
\* length of the accumulation list and totalSamples its total frame count).

NewEncoder(kind, rate, ch) ==
  [kind |-> kind, sampleRate |-> rate, numChannels |-> ch, alive |-> TRUE,
   bufferCount |-> 0, totalSamples |-> 0]

\* The outcome of an encoder method: the encoder afterwards, the error it
\* throws ("" when it returns), and the calls it made on the external codec.
Outcome(e, err, calls) == [enc |-> e, err |-> err, calls |-> calls]

\* An encode() that stores whatever it is given.
WavEncodeUnchecked(e, frame, len) ==
  Outcome([e EXCEPT !.bufferCount = @ + 1, !.totalSamples = @ + len], "", <<>>)

\* WavAudioEncoder.encode
WavEncode(e, frame, len) ==
  IF Len(frame) # e.numChannels
    THEN Outcome(e, "ChannelCountMismatch", <<>>)
    ELSE Outcome([e EXCEPT !.bufferCount = @ + 1, !.totalSamples = @ + len], "", <<>>)

\* OggVorbisEncoderWrapper.encode: the channel resolution
OggAdapt(frame, m) ==
  LET n == Len(frame) IN
  IF n = m THEN frame
  ELSE IF n = 1 /\ m = 2 THEN <<frame[1], frame[1]>>
  ELSE IF n >= 2 /\ m = 1 THEN <<frame[1]>>
  ELSE [i \in 1..m |-> IF i <= n THEN frame[i] ELSE frame[n]]

\* OggVorbisEncoderWrapper.encode
OggEncode(e, frame, len, codecFails) ==
  IF ~e.alive THEN Outcome(e, "NotInitialized", <<>>)
  ELSE IF Len(frame) = 0 THEN Outcome(e, "", <<>>)
  ELSE IF codecFails THEN Outcome(e, "EncoderFault", <<"codec.encode">>)
  ELSE Outcome([e EXCEPT !.bufferCount = @ + 1, !.totalSamples = @ + len], "",
               <<"codec.encode">>)

\* Mp3LameEncoderWrapper.encode: the channel conversion
Mp3Adapt(frame, m) ==
  LET n == Len(frame) IN
  IF n = m THEN frame
  ELSE IF n = 1 /\ m = 2 THEN <<frame[1], frame[1]>>
  ELSE IF n = 2 /\ m = 1 THEN <<frame[1]>>
  ELSE IF n < m THEN PadLast(frame, m)
  ELSE Take(frame, m)

\* Mp3LameEncoderWrapper.encode
Mp3Encode(e, frame, len, codecFails) ==
  IF ~e.alive THEN Outcome(e, "NotInitialized", <<>>)
  ELSE IF Len(Mp3Adapt(frame, e.numChannels)) # e.numChannels
    THEN Outcome(e, "ChannelCountMismatch", <<>>)
  ELSE IF len = 0 THEN Outcome(e, "", <<>>)
  ELSE IF codecFails THEN Outcome(e, "EncoderFault", <<"codec.encode">>)
  ELSE Outcome([e EXCEPT !.bufferCount = @ + 1, !.totalSamples = @ + len], "",
               <<"codec.encode">>)

\* AudioEncoder.encode, dispatched on the variant.
EncEncode(e, frame, len, codecFails) ==
  IF e.kind = "wav" THEN WavEncode(e, frame, len)
  ELSE IF e.kind = "ogg" THEN OggEncode(e, frame, len, codecFails)
  ELSE Mp3Encode(e, frame, len, codecFails)

\* WavAudioEncoder.finish
WavFinish(e) ==
  IF e.bufferCount = 0 THEN Outcome(e, "NoData", <<>>)
  ELSE IF e.totalSamples = 0 THEN Outcome(e, "NoData", <<>>)
  ELSE Outcome([e EXCEPT !.bufferCount = 0, !.totalSamples = 0], "", <<>>)

\* OggVorbisEncoderWrapper.finish: MIN_SAMPLES = sampleRate * 0.5 and
\* missingSamples = ceil(MIN_SAMPLES - totalSamples), kept exact in halves.
OggMissing2(e) == e.sampleRate - 2 * e.totalSamples
OggMissing(e) == (OggMissing2(e) + 1) \div 2

\* OggVorbisEncoderWrapper.finish
OggFinish(e, codecFails) ==
  IF ~e.alive THEN Outcome(e, "NotInitialized", <<>>)
  ELSE
    LET short == OggMissing2(e) > 0
        pads == short /\ OggMissing(e) > 0 /\ OggMissing(e) < e.sampleRate * 10
        pre == IF pads THEN <<"codec.encode">> ELSE <<>>
    IN IF short /\ ~pads /\ e.bufferCount = 0 THEN Outcome(e, "NoData", <<>>)
       ELSE IF codecFails THEN Outcome(e, "EncoderFault", pre \o <<"codec.finish">>)
       ELSE Outcome(e, "", pre \o <<"codec.finish">>)

\* Mp3LameEncoderWrapper.finish
Mp3Finish(e, codecFails) ==
  IF ~e.alive THEN Outcome(e, "NotInitialized", <<>>)
  ELSE IF codecFails THEN Outcome(e, "EncoderFault", <<"codec.finish">>)
  ELSE Outcome(e, "", <<"codec.finish">>)

\* AudioEncoder.finish, dispatched on the variant.
EncFinish(e, codecFails) ==
  IF e.kind = "wav" THEN WavFinish(e)
  ELSE IF e.kind = "ogg" THEN OggFinish(e, codecFails)
  ELSE Mp3Finish(e, codecFails)

\* WavAudioEncoder.cancel
\* A cancel() that keeps what was accumulated.
WavCancelKeeps(e) == Outcome(e, "", <<>>)

WavCancel(e) == Outcome([e EXCEPT !.bufferCount = 0, !.totalSamples = 0], "", <<>>)

\* OggVorbisEncoderWrapper.cancel: a failure of the codec's cancel is swallowed.
OggCancel(e, codecFails) ==
  Outcome([e EXCEPT !.alive = FALSE, !.bufferCount = 0, !.totalSamples = 0], "",
          IF e.alive THEN <<"codec.cancel">> ELSE <<>>)

\* Mp3LameEncoderWrapper.cancel: a failure of the codec's cancel propagates,
\* before the wrapper drops the codec and resets its counters.
Mp3Cancel(e, codecFails) ==
  IF e.alive /\ codecFails THEN Outcome(e, "EncoderFault", <<"codec.cancel">>)
  ELSE Outcome([e EXCEPT !.alive = FALSE, !.bufferCount = 0, !.totalSamples = 0], "",
               IF e.alive THEN <<"codec.cancel">> ELSE <<>>)

\* AudioEncoder.cancel, dispatched on the variant.
EncCancel(e, codecFails) ==
  IF e.kind = "wav" THEN WavCancel(e)
  ELSE IF e.kind = "ogg" THEN OggCancel(e, codecFails)
  ELSE Mp3Cancel(e, codecFails)

\* ------------------------------------------------------------- PCM samples
\* A sample is a whole number of 1/10000: One is 1.0, and three values
\* outside every finite sample stand for NaN, +Infinity and -Infinity.

One == 10000
NaN == 3000000
PosInf == 2000000
NegInf == -2000000

\* Number.isFinite
IsFinite(x) == x \notin {NaN, PosInf, NegInf}

Max2(a, b) == IF a > b THEN a ELSE b
Min2(a, b) == IF a < b THEN a ELSE b

\* A capture frame of n channels of len samples each: gain 0 is silence, and
\* with another gain every sample of the frame has its own value, positive at
\* odd positions and negative at even ones.
ToneSample(g, c, j) == g * (IF j % 2 = 1 THEN 1 ELSE -1) * (2500 * c + 625 * j)
Tone(n, len, g) == [c \in 1..n |-> [j \in 1..len |-> ToneSample(g, c, j)]]

\* The number of samples of the first channel of a frame (0 without channels).
FrameLength(frame) == IF Len(frame) = 0 THEN 0 ELSE Len(frame[1])

\* new Float32Array(k): k zero samples.
Zeros(k) == [j \in 1..k |-> 0]

\* ------------------------------------------------ WavAudioEncoder: the file

\* A WAV writer that lays the channels of a frame out one after the other.
WavPlanarOrder(f, C) ==
  [k \in 1..(Len(f[1]) * C) |-> f[((k - 1) \div Len(f[1])) + 1][((k - 1) % Len(f[1])) + 1]]

\* The order in which the data loop visits the samples of one frame: for each
\* sample index j, for each channel.
WavFrameOrder(f, C) ==
  [k \in 1..(Len(f[1]) * C) |-> f[((k - 1) % C) + 1][((k - 1) \div C) + 1]]

\* Math.max(-1, Math.min(1, x)), then sample < 0 ? sample * 0x8000 :
\* sample * 0x7FFF, as view.setInt16 stores it: the fraction is dropped and
\* NaN is stored as 0.
WavInt16(x) ==
  IF x = NaN THEN 0
  ELSE LET s == Max2(-One, Min2(One, x))
       IN IF s < 0 THEN -((-s * 32768) \div One) ELSE (s * 32767) \div One

\* DataView.setUint16 / setUint32 / setInt16 with littleEndian = true.
U16LE(v) == <<v % 256, (v \div 256) % 256>>
U32LE(v) == <<v % 256, (v \div 256) % 256, (v \div 65536) % 256, (v \div 16777216) % 256>>
I16LE(v) == U16LE((v + 65536) % 65536)

\* writeString: the character codes of 'RIFF', 'WAVE', 'fmt ' and 'data'.
RIFF == <<82, 73, 70, 70>>
WAVE == <<87, 65, 86, 69>>
FMT == <<102, 109, 116, 32>>
DATA == <<100, 97, 116, 97>>

\* One write into the ArrayBuffer: bytes stored from byte offset off on.
Write(off, bytes) == [off |-> off, bytes |-> bytes]
Poke(buf, w) ==
  [k \in 1..Len(buf) |->
     IF k > w.off /\ k <= w.off + Len(w.bytes) THEN w.bytes[k - w.off] ELSE buf[k]]
RECURSIVE PokeAll(_, _)
PokeAll(buf, ws) == IF ws = <<>> THEN buf ELSE PokeAll(Poke(buf, Head(ws)), Tail(ws))

\* A frame of the accumulation list that the loops of finish() skip.
WavSkipped(f) == Len(f) = 0 \/ Len(f[1]) = 0

\* totalFrames: the lengths of the first channels of the frames not skipped.
RECURSIVE WavTotalFrames(_)
WavTotalFrames(bufs) ==
  IF bufs = <<>> THEN 0
  ELSE (IF WavSkipped(Head(bufs)) THEN 0 ELSE Len(Head(bufs)[1])) + WavTotalFrames(Tail(bufs))

\* A data size that counts one channel only.
WavDataSizeOneChannel(T, C) == T * 2

\* dataSize = totalFrames * numChannels * 2
WavDataSize(T, C) == T * C * 2

\* fileSize = 44 + dataSize
WavFileSize(T, C) == 44 + WavDataSize(T, C)

\* A header whose RIFF size field holds the whole file size.
WavHeaderWholeSize(C, R, dataSize) ==
  <<Write(0, RIFF), Write(4, U32LE(44 + dataSize)), Write(8, WAVE),
    Write(12, FMT), Write(16, U32LE(16)), Write(20, U16LE(1)), Write(22, U16LE(C)),
    Write(24, U32LE(R)), Write(28, U32LE(R * C * 2)), Write(32, U16LE(C * 2)),
    Write(34, U16LE(16)), Write(36, DATA), Write(40, U32LE(dataSize))>>

\* The header writes of finish(), in program order.
WavHeader(C, R, dataSize) ==
  <<Write(0, RIFF), Write(4, U32LE(44 + dataSize - 8)), Write(8, WAVE),
    Write(12, FMT), Write(16, U32LE(16)), Write(20, U16LE(1)), Write(22, U16LE(C)),
    Write(24, U32LE(R)), Write(28, U32LE(R * C * 2)), Write(32, U16LE(C * 2)),
    Write(34, U16LE(16)), Write(36, DATA), Write(40, U32LE(dataSize))>>

\* Some channel of a frame that is not skipped differs in length from the
\* first one: the data loop of finish() throws when it reaches that frame.
WavRagged(bufs, C) ==
  \E i \in 1..Len(bufs) :
    /\ ~WavSkipped(bufs[i])
    /\ \E c \in 1..C : Len(bufs[i][c]) # Len(bufs[i][1])

\* WavAudioEncoder.finish on the accumulation list itself: after the checks
\* on the totals, the data loop throws at a frame whose channels differ in
\* length, before the list is cleared.
WavFinishFrames(e, bufs) ==
  LET r == WavFinish(e)
  IN IF r.err = "" /\ WavRagged(bufs, e.numChannels)
       THEN Outcome(e, "ChannelLengthMismatch", <<>>)
       ELSE r

\* The samples in the order the data loop of finish() writes them.
RECURSIVE WavSamples(_, _)
WavSamples(bufs, C) ==
  IF bufs = <<>> THEN <<>>
  ELSE (IF WavSkipped(Head(bufs)) THEN <<>> ELSE WavFrameOrder(Head(bufs), C))
         \o WavSamples(Tail(bufs), C)

\* The writes of the data loop: offset starts at 44 and advances by 2.
WavDataWrites(bufs, C) ==
  LET s == WavSamples(bufs, C)
  IN [k \in 1..Len(s) |-> Write(44 + 2 * (k - 1), I16LE(WavInt16(s[k])))]

\* The ArrayBuffer finish() wraps into its Blob: fileSize zero bytes, then the
\* header writes and the data writes.
WavBlob(bufs, C, R) ==
  LET dataSize == WavDataSize(WavTotalFrames(bufs), C)
  IN PokeAll([k \in 1..(44 + dataSize) |-> 0],
             WavHeader(C, R, dataSize) \o WavDataWrites(bufs, C))

\* A reader of the file: the fields of a canonical 44-byte RIFF/WAVE header
\* and the 16-bit samples of the data chunk.
GetU16(b, off) == b[off + 1] + 256 * b[off + 2]
GetU32(b, off) == b[off + 1] + 256 * b[off + 2] + 65536 * b[off + 3] + 16777216 * b[off + 4]
GetI16(b, off) == LET u == GetU16(b, off) IN IF u >= 32768 THEN u - 65536 ELSE u
ParseWav(b) ==
  [riff |-> SubSeq(b, 1, 4), riffSize |-> GetU32(b, 4), wave |-> SubSeq(b, 9, 12),
   fmt |-> SubSeq(b, 13, 16), fmtSize |-> GetU32(b, 16), format |-> GetU16(b, 20),
   channels |-> GetU16(b, 22), sampleRate |-> GetU32(b, 24), byteRate |-> GetU32(b, 28),
   blockAlign |-> GetU16(b, 32), bits |-> GetU16(b, 34), data |-> SubSeq(b, 37, 40),
   dataSize |-> GetU32(b, 40),
   samples |-> [k \in 1..((Len(b) - 44) \div 2) |-> GetI16(b, 44 + 2 * (k - 1))]]

\* ----------------------------------------- wrappers: what the codec is fed

\* SAFE_MAX = 0.9999 and SAFE_MIN = -0.9999
SAFE_MAX == 9999

\* OggVorbisEncoderWrapper.encode: the copy of one sample handed to the codec.
OggSafe(x) ==
  IF ~IsFinite(x) THEN 0
  ELSE IF x > SAFE_MAX THEN SAFE_MAX
  ELSE IF x < -SAFE_MAX THEN -SAFE_MAX
  ELSE x

\* Mp3LameEncoderWrapper.encode: the copy of one sample handed to the codec.
Mp3Safe(x) == IF ~IsFinite(x) THEN 0 ELSE Max2(-One, Min2(One, x))

\* The frame a wrapper's encode() arrives at before it sanitizes: none (<<>>)
\* when the OGG wrapper returns early on a frame without channels.
Adapted(kind, frame, m) ==
  IF kind = "ogg" THEN (IF Len(frame) = 0 THEN <<>> ELSE OggAdapt(frame, m))
  ELSE Mp3Adapt(frame, m)

\* safeBuffers: what a wrapper's encode() passes to the codec's encode().
SafeBuffers(kind, frame, m) ==
  LET a == Adapted(kind, frame, m)
  IN [c \in 1..Len(a) |->
        [j \in 1..Len(a[c]) |-> IF kind = "ogg" THEN OggSafe(a[c][j]) ELSE Mp3Safe(a[c][j])]]

\* Whose array each channel is that an encode() keeps or passes on: 0 is an
\* array the encoder allocated, c > 0 is the caller's array of channel c.

\* A WAV encoder that pushes the caller's arrays themselves.
WavOwnersShared(frame) == [c \in 1..Len(frame) |-> c]

\* WavAudioEncoder.encode pushes buffers.map(b => new Float32Array(b)).
WavOwners(frame) == [c \in 1..Len(frame) |-> 0]

\* The wrappers write the sanitized samples into new Float32Array(length).
SafeOwners(kind, frame, m) == [c \in 1..Len(Adapted(kind, frame, m)) |-> 0]

\* The caller's arrays after an encode() that wrote the channels fed into the
\* arrays owners names: an array of the caller's that is written to holds
\* what was written, every other one what it held.
CallerAfter(frame, owners, fed) ==
  [c \in 1..Len(frame) |->
     IF \E k \in 1..Len(owners) : owners[k] = c
       THEN fed[CHOOSE k \in 1..Len(owners) : owners[k] = c]
       ELSE frame[c]]

\* What the capture source leaves in its arrays when it reuses them.
Reused(frame) == [c \in 1..Len(frame) |-> [j \in 1..Len(frame[c]) |-> -One]]

\* The channels chans, of which owners names the arrays, once the caller's
\* arrays hold caller.
Reload(chans, owners, caller) ==
  [c \in 1..Len(chans) |-> IF owners[c] = 0 THEN chans[c] ELSE caller[owners[c]]]

\* silenceBuffers: what OggVorbisEncoderWrapper.finish() pads with.
SilenceBuffers(e) == [c \in 1..e.numChannels |-> Zeros(OggMissing(e))]

\* ------------------------------------------------------------ the session

VARIABLES
  status,                   \* this.status
  numChannels,              \* this.numChannels
  audioContext,             \* this.audioContext is not null
  hasEncoder,               \* this.encoder is not null
  enc,                      \* the encoder instance the session was built with
  stream,                   \* this.stream (NoStream: null)
  sourceNode,               \* this.sourceNode is not null
  scriptProcessor,          \* this.scriptProcessor (NoProc: null)
  procs,                    \* the script processors that are connected and
                            \* have an onaudioprocess handler
  pending,                  \* the stop() calls suspended at their 50 ms timer
  onCompleteCallback,       \* this.onCompleteCallback is not null
  onDataAvailableCallback,  \* this.onDataAvailableCallback is not null
  onErrorCallback,          \* this.onErrorCallback is not null
  lastCall,                 \* what the last handler run did (observation)
  wavBuffers,               \* WavAudioEncoder.buffers of an encoder driven on its
                            \* own: the accumulation list (<<>> for a wrapper)
  history,                  \* what happened to that encoder since its construction
  result                    \* what the last call on it did (observation)

vars == <<status, numChannels, audioContext, hasEncoder, enc, stream, sourceNode,
          scriptProcessor, procs, pending, onCompleteCallback,
          onDataAvailableCallback, onErrorCallback, lastCall,
          wavBuffers, history, result>>

\* The variables of an encoder driven on its own.
unitVars == <<wavBuffers, history, result>>

callbacks == <<onCompleteCallback, onDataAvailableCallback, onErrorCallback>>

\* The streams start() may be given.
Streams == [reported : ReportedChannels]
\* Where binding the capture source may fail inside start().
StartFaults == {"none", "source", "processor", "connect"}

\* The callbacks a session is constructed with (options.onComplete,
\* options.onDataAvailable, options.onError): all of them, or none.
CallbackOptions ==
  {[onComplete |-> b, onDataAvailable |-> b, onError |-> b] : b \in BOOLEAN}

\* One handler run as observed from outside: the operation, the status it
\* found, the error that occurred ("" for none) and whether it was raised to
\* the caller, the ordered effects of the run, the frame handed to
\* encoder.encode() (NoFrame for none), and, for a resumed stop(), whether
\* encoder.encode() was called while that stop() was waiting.
Call(op, pre, err, raised, trace, sent, raced) ==
  [op |-> op, pre |-> pre, err |-> err, raised |-> raised, trace |-> trace,
   sent |-> sent, raced |-> raced]

\* One call on an encoder driven on its own: the operation, the instance as
\* the call found it, the frame it was given, the error it threw
\* ("" when it returned), the calls it made on the external codec, the frame
\* it arrived at by adapting the channels, the buffers it passed to the
\* codec's encode(), and for a WAV finish() the writes of the data loop and
\* the bytes of the file.  After encode(), input is what the caller's arrays
\* hold when the call is over, and owners tells whose arrays the channels the
\* call stored or passed on are.
Result(op, pre, input, err, calls, adapted, fed, writes, blob) ==
  [op |-> op, pre |-> pre, input |-> input, err |-> err, calls |-> calls,
   adapted |-> adapted, fed |-> fed, writes |-> writes, blob |-> blob,
   owners |-> [stored |-> <<>>, fed |-> <<>>]]

\* Nothing has been called on the encoder yet.
NewHistory == [finishes |-> 0, delivered |-> 0, finished |-> FALSE, cancelled |-> FALSE]
NoResult == Result("new", "", <<>>, "", <<>>, <<>>, <<>>, <<>>, <<>>)

\* An error handler that tells nobody.
HandleErrorSilent == <<>>

\* handleError: the error callback is invoked when one is set.
HandleError == IF onErrorCallback THEN <<"onError">> ELSE <<>>

Init ==
  /\ status = INACTIVE
  /\ numChannels \in ConfiguredChannels
  /\ audioContext = TRUE
  /\ hasEncoder = TRUE
  /\ \E k \in EncoderKinds, r \in SampleRates : enc = NewEncoder(k, r, numChannels)
  /\ stream = NoStream
  /\ sourceNode = FALSE
  /\ scriptProcessor = NoProc
  /\ procs = {}
  /\ pending = <<>>
  /\ \E o \in CallbackOptions :
       /\ onCompleteCallback = o.onComplete
       /\ onDataAvailableCallback = o.onDataAvailable
       /\ onErrorCallback = o.onError
  /\ lastCall = Call("new", INACTIVE, "", FALSE, <<>>, NoFrame, FALSE)
  /\ wavBuffers = <<>>
  /\ history = NewHistory
  /\ result = NoResult

\* start() without its second guard.
StartRejectsOnlyRecording(st) ==
  IF st = RECORDING THEN "AlreadyRecording" ELSE ""

\* The two guards at the top of start(): the error it fails with ("": none).
StartRejects(st) ==
  IF st = RECORDING THEN "AlreadyRecording"
  ELSE IF st = PROCESSING THEN "StillProcessing"
  ELSE ""

\* A start() that keeps the configured channel count whatever the track says.
DetectedChannelsConfigured(s, configured) == configured

\* The channel count start() settles on: the first audio track's
\* settings.channelCount when it is set, the configured count otherwise.
DetectedChannels(s, configured) ==
  IF s.reported # 0 THEN s.reported ELSE configured

\* createScriptProcessor: a processor object not yet in use.
NewProc == CHOOSE p \in 1..MaxProcs : p \notin procs /\ \A q \in 1..(p-1) : q \in procs

\* start(stream)
Start(s, fault) ==
  LET rej == StartRejects(status) IN
  IF rej # ""
    THEN /\ lastCall' = Call("start", status, rej, TRUE, <<>>, NoFrame, FALSE)
         /\ UNCHANGED <<status, numChannels, audioContext, hasEncoder, enc, stream,
                        sourceNode, scriptProcessor, procs, pending, callbacks, unitVars>>
    ELSE
      /\ Cardinality(procs) < MaxProcs
      /\ stream' = s
      /\ UNCHANGED <<audioContext, hasEncoder, enc, pending, callbacks, unitVars>>
      /\ IF ~audioContext \/ fault = "source"
           THEN /\ status' = ERROR
                /\ UNCHANGED <<numChannels, sourceNode, scriptProcessor, procs>>
                /\ lastCall' = Call("start", status,
                                    IF ~audioContext THEN "NotInitialized" ELSE "CaptureFault",
                                    TRUE,
                                    <<"status:recording", "status:error">> \o HandleError,
                                    NoFrame, FALSE)
           ELSE
             /\ sourceNode' = TRUE
             /\ numChannels' = DetectedChannels(s, numChannels)
             /\ IF fault = "processor"
                  THEN /\ status' = ERROR
                       /\ UNCHANGED <<scriptProcessor, procs>>
                       /\ lastCall' = Call("start", status, "CaptureFault", TRUE,
                                           <<"status:recording", "status:error">> \o HandleError,
                                           NoFrame, FALSE)
                  ELSE
                    /\ scriptProcessor' = NewProc
                    /\ IF fault = "connect"
                         THEN /\ status' = ERROR
                              /\ UNCHANGED procs
                              /\ lastCall' = Call("start", status, "CaptureFault", TRUE,
                                                  <<"status:recording", "status:error">> \o HandleError,
                                                  NoFrame, FALSE)
                         ELSE /\ status' = RECORDING
                              /\ procs' = procs \cup {NewProc}
                              /\ lastCall' = Call("start", status, "", FALSE,
                                                  <<"status:recording", "connect">>,
                                                  NoFrame, FALSE)

\* Every suspended stop() has now seen an encoder.encode() call.
MarkEncoded(q) == [i \in 1..Len(q) |-> [q[i] EXCEPT !.encoded = TRUE]]

\* scriptProcessor.onaudioprocess, for a frame of n channels
Frame(p, n, codecFails) ==
  /\ p \in procs
  /\ FrameAccepted(status) => enc.bufferCount < MaxFrames
  /\ UNCHANGED <<status, numChannels, audioContext, hasEncoder, stream, sourceNode,
                 scriptProcessor, procs, callbacks, unitVars>>
  /\ IF ~FrameAccepted(status)
       THEN /\ lastCall' = Call("frame", status, "", FALSE, <<>>, NoFrame, FALSE)
            /\ UNCHANGED <<enc, pending>>
       ELSE
         LET buffers == RecorderAdapt(SourceFrame(n), numChannels) IN
         IF Len(buffers) # numChannels \/ ~hasEncoder \/ Len(buffers) = 0
           THEN /\ lastCall' = Call("frame", status, "", FALSE, <<>>, NoFrame, FALSE)
                /\ UNCHANGED <<enc, pending>>
           ELSE
             LET r == EncEncode(enc, buffers, BufferSize, codecFails) IN
             /\ enc' = r.enc
             /\ pending' = MarkEncoded(pending)
             /\ lastCall' = Call("frame", status, r.err, FALSE,
                                 <<"encoder.encode">> \o r.calls \o
                                   (IF r.err # "" THEN HandleError ELSE <<>>),
                                 buffers, FALSE)

\* A stop() guard that lets a second stop() through while one is processed.
StopRejectsUnlessBusy(st) ==
  IF st # RECORDING /\ st # PROCESSING THEN "NotRecording" ELSE ""

\* The guard at the top of stop(): the error it fails with ("": none).
StopRejects(st) == IF st # RECORDING THEN "NotRecording" ELSE ""

\* stop(), up to the await of the grace timer
StopCall ==
  LET rej == StopRejects(status) IN
  IF rej # ""
    THEN /\ lastCall' = Call("stop", status, rej, TRUE, <<>>, NoFrame, FALSE)
         /\ UNCHANGED <<status, numChannels, audioContext, hasEncoder, enc, stream,
                        sourceNode, scriptProcessor, procs, pending, callbacks, unitVars>>
    ELSE
      /\ hasEncoder => Len(pending) < MaxPending
      /\ procs' = procs \ {scriptProcessor}
      /\ scriptProcessor' = NoProc
      /\ sourceNode' = FALSE
      /\ UNCHANGED <<numChannels, audioContext, hasEncoder, enc, stream, callbacks, unitVars>>
      /\ IF ~hasEncoder
           THEN /\ status' = ERROR
                /\ UNCHANGED pending
                /\ lastCall' = Call("stop", status, "NotInitialized", TRUE,
                                    <<"status:processing", "disconnect", "status:error">>
                                      \o HandleError,
                                    NoFrame, FALSE)
           ELSE /\ status' = PROCESSING
                /\ pending' = Append(pending,
                                     [encoded |-> FALSE,
                                      trace |-> <<"status:processing", "disconnect">>])
                /\ lastCall' = Call("stop", status, "", FALSE,
                                    <<"status:processing", "disconnect", "await">>,
                                    NoFrame, FALSE)

\* A stop() that emits its completion event before it sets COMPLETE.
StopSucceedsEventFirst ==
  (IF onCompleteCallback THEN <<"onComplete">> ELSE <<>>)
    \o <<"status:complete">>
    \o (IF onDataAvailableCallback THEN <<"onDataAvailable">> ELSE <<>>)

\* The effects of a stop() whose encoder.finish() returned.
StopSucceeds ==
  <<"status:complete">>
    \o (IF onCompleteCallback THEN <<"onComplete">> ELSE <<>>)
    \o (IF onDataAvailableCallback THEN <<"onDataAvailable">> ELSE <<>>)

\* A catch block that goes on to emit the events of a successful stop().
StopFailsThenCompletes ==
  <<"status:error">> \o HandleError
    \o (IF onCompleteCallback THEN <<"onComplete">> ELSE <<>>) \o <<"throw">>

\* The catch block of stop().
StopFails == <<"status:error">> \o HandleError \o <<"throw">>

\* A grace wait that arms its timer again when the timer fires.
StopWaitsOn(codecFails) ==
  /\ pending # <<>>
  /\ lastCall' = Call("stop", status, "", FALSE, <<"await">>, NoFrame, FALSE)
  /\ UNCHANGED <<status, numChannels, audioContext, hasEncoder, enc, stream, sourceNode,
                 scriptProcessor, procs, pending, callbacks, unitVars>>

\* stop(), from the grace timer on: the oldest suspended call resumes
StopResume(codecFails) ==
  /\ pending # <<>>
  /\ pending' = Tail(pending)
  /\ UNCHANGED <<numChannels, audioContext, hasEncoder, stream, sourceNode,
                 scriptProcessor, procs, callbacks, unitVars>>
  /\ LET h == Head(pending) IN
     IF ~hasEncoder
       THEN /\ status' = ERROR
            /\ UNCHANGED enc
            /\ lastCall' = Call("stopResume", status, "TypeError", TRUE,
                                h.trace \o <<"grace">> \o StopFails, NoFrame, h.encoded)
       ELSE
         LET r == EncFinish(enc, codecFails) IN
         /\ enc' = r.enc
         /\ status' = IF r.err = "" THEN COMPLETE ELSE ERROR
         /\ lastCall' = Call("stopResume", status, r.err, r.err # "",
                             h.trace \o <<"grace", "encoder.finish">> \o r.calls
                               \o (IF r.err = "" THEN StopSucceeds ELSE StopFails),
                             NoFrame, h.encoded)

\* The guard at the top of cancel().
CancelIsNoop(st) == st = INACTIVE \/ st = COMPLETE

\* cancel(): the values it leaves behind, the error it throws and its effects.
CancelRun(codecFails, trackFails) ==
  LET r == EncCancel(enc, codecFails)
      disc == IF scriptProcessor # NoProc \/ sourceNode THEN <<"disconnect">> ELSE <<>>
      base == [status |-> status, stream |-> stream, enc |-> enc, err |-> "",
               procs |-> procs \ {scriptProcessor}, trace |-> disc]
  IN
  IF hasEncoder /\ r.err # ""
    THEN [base EXCEPT !.enc = r.enc, !.err = r.err,
                      !.trace = disc \o <<"encoder.cancel">> \o r.calls \o <<"throw">>]
    ELSE
      LET e2 == IF hasEncoder THEN r.enc ELSE enc
          t2 == disc \o (IF hasEncoder THEN <<"encoder.cancel">> \o r.calls ELSE <<>>)
      IN
      IF stream # NoStream /\ trackFails
        THEN [base EXCEPT !.enc = e2, !.err = "CaptureFault",
                          !.trace = t2 \o <<"tracks.stop", "throw">>]
        ELSE [base EXCEPT !.enc = e2, !.stream = NoStream, !.status = INACTIVE,
                          !.trace = t2 \o (IF stream # NoStream
                                             THEN <<"tracks.stop", "stream:null">>
                                             ELSE <<>>)
                                       \o <<"status:inactive">>]

\* cancel()
Cancel(codecFails, trackFails) ==
  IF CancelIsNoop(status)
    THEN /\ lastCall' = Call("cancel", status, "", FALSE, <<>>, NoFrame, FALSE)
         /\ UNCHANGED <<status, numChannels, audioContext, hasEncoder, enc, stream,
                        sourceNode, scriptProcessor, procs, pending, callbacks, unitVars>>
    ELSE
      LET c == CancelRun(codecFails, trackFails) IN
      /\ status' = c.status
      /\ stream' = c.stream
      /\ enc' = c.enc
      /\ procs' = c.procs
      /\ scriptProcessor' = NoProc
      /\ sourceNode' = FALSE
      /\ lastCall' = Call("cancel", status, c.err, c.err # "", c.trace, NoFrame, FALSE)
      /\ UNCHANGED <<numChannels, audioContext, hasEncoder, pending, callbacks, unitVars>>

\* cleanup()
Cleanup(codecFails, trackFails) ==
  LET noop == CancelIsNoop(status)
      c == CancelRun(codecFails, trackFails)
      threw == ~noop /\ c.err # ""
  IN
  /\ status' = IF noop THEN INACTIVE ELSE c.status
  /\ stream' = IF noop THEN stream ELSE c.stream
  /\ enc' = IF noop THEN enc ELSE c.enc
  /\ procs' = IF noop THEN procs ELSE c.procs
  /\ scriptProcessor' = IF noop THEN scriptProcessor ELSE NoProc
  /\ sourceNode' = IF noop THEN sourceNode ELSE FALSE
  /\ hasEncoder' = IF threw THEN hasEncoder ELSE FALSE
  /\ audioContext' = IF threw THEN audioContext ELSE FALSE
  /\ lastCall' = Call("cleanup", status, IF noop THEN "" ELSE c.err, threw,
                      (IF noop THEN <<>> ELSE c.trace)
                        \o (IF threw THEN <<>>
                            ELSE <<"encoder:null", "audioContext:null", "status:inactive">>),
                      NoFrame, FALSE)
  /\ UNCHANGED <<numChannels, pending, callbacks, unitVars>>

Next ==
  \/ \E s \in Streams, fault \in StartFaults : Start(s, fault)
  \/ \E p \in procs, n \in 0..MaxFrameChannels, codecFails \in BOOLEAN :
       Frame(p, n, codecFails)
  \/ StopCall
  \/ \E codecFails \in BOOLEAN : StopResume(codecFails)
  \/ \E codecFails \in BOOLEAN, trackFails \in BOOLEAN : Cancel(codecFails, trackFails)
  \/ \E codecFails \in BOOLEAN, trackFails \in BOOLEAN : Cleanup(codecFails, trackFails)

\* ------------------------------------------------- an encoder on its own
\* The encoder variants driven directly through the AudioEncoder interface,
\* with frames of real samples.  `enc' is the instance under test; the
\* session around it stays as constructed.

\* finish() calls on one encoder instance before the model stops finishing it.
MaxFinishes == 2
\* Largest number of samples per channel of a frame passed to encode().
MaxLen == 2

\* The sample rates an encoder is constructed with.  The wrappers get a rate
\* whose half second is two samples and a half, so that frames of up to
\* MaxLen samples both miss and reach the minimum.
EncoderRates(kind) == IF kind = "wav" THEN {44100} ELSE {5}
\* The gains of the frames passed to encode(): silence, and a gain that takes
\* some samples of a frame past full scale and leaves others within it.
Gains == {0, 3}
\* The frames passed to encode().
Frames ==
  {Tone(n, len, g) : n \in 0..MaxFrameChannels, len \in 0..MaxLen, g \in Gains}

\* A frame of two channels whose second channel is one sample shorter than
\* the first.  Only WavAudioEncoder is given it.
Ragged == <<Tone(1, 2, 3)[1], Tone(1, 1, 3)[1]>>
RaggedFrames == {Ragged}

\* A frame of one channel that holds the three values that are not finite.
Corrupt == <<<<NaN, PosInf, NegInf>>>>
CorruptFrames == {Corrupt}

\* The frames encode() is called with on an encoder of a kind.
InputFrames(kind) ==
  Frames \cup CorruptFrames \cup (IF kind = "wav" THEN RaggedFrames ELSE {})

EncoderInit ==
  /\ \E k \in EncoderKinds : \E r \in EncoderRates(k), c \in ConfiguredChannels :
       enc = NewEncoder(k, r, c)
  /\ wavBuffers = <<>>
  /\ history = NewHistory
  /\ result = NoResult
  /\ status = INACTIVE
  /\ numChannels = enc.numChannels
  /\ audioContext = TRUE
  /\ hasEncoder = TRUE
  /\ stream = NoStream
  /\ sourceNode = FALSE
  /\ scriptProcessor = NoProc
  /\ procs = {}
  /\ pending = <<>>
  /\ onCompleteCallback = FALSE
  /\ onDataAvailableCallback = FALSE
  /\ onErrorCallback = FALSE
  /\ lastCall = Call("new", INACTIVE, "", FALSE, <<>>, NoFrame, FALSE)

\* encoder.encode(frame)
EncodeCall(frame, codecFails) ==
  /\ enc.bufferCount < MaxFrames
  /\ frame \in InputFrames(enc.kind)
  /\ LET r == EncEncode(enc, frame, FrameLength(frame), codecFails)
         toCodec == Has(r.calls, "codec.encode")
     IN /\ codecFails => toCodec
        /\ enc' = r.enc
        /\ wavBuffers' = IF enc.kind = "wav" /\ r.err = "" THEN Append(wavBuffers, frame)
                                                       ELSE wavBuffers
        /\ history' = [history EXCEPT
                         !.delivered = @ + (IF toCodec /\ r.err = ""
                                              THEN FrameLength(frame) ELSE 0)]
        /\ LET fed == IF toCodec THEN SafeBuffers(enc.kind, frame, enc.numChannels)
                                  ELSE <<>>
               owners ==
                 [stored |-> IF enc.kind = "wav" /\ r.err = "" THEN WavOwners(frame)
                                                               ELSE <<>>,
                  fed |-> IF toCodec THEN SafeOwners(enc.kind, frame, enc.numChannels)
                                     ELSE <<>>]
           IN result' = [Result("encode", enc, CallerAfter(frame, owners.fed, fed),
                                r.err, r.calls,
                                IF enc.kind = "wav" \/ ~enc.alive
                                  THEN <<>>
                                  ELSE Adapted(enc.kind, frame, enc.numChannels),
                                fed, <<>>, <<>>)
                           EXCEPT !.owners = owners]
  /\ UNCHANGED <<status, numChannels, audioContext, hasEncoder, stream, sourceNode,
                 scriptProcessor, procs, pending, callbacks, lastCall>>

\* encoder.finish(); padFails: the codec rejects the silence finish() pads with
FinishCall(codecFails, padFails) ==
  /\ history.finishes < MaxFinishes
  /\ LET r == IF enc.kind = "wav" THEN WavFinishFrames(enc, wavBuffers)
                                   ELSE EncFinish(enc, codecFails)
         pads == Has(r.calls, "codec.encode")
         file == enc.kind = "wav" /\ r.err = ""
     IN /\ enc' = r.enc
        /\ wavBuffers' = IF file THEN <<>> ELSE wavBuffers
        /\ history' = [history EXCEPT
                         !.finishes = @ + 1,
                         !.delivered = @ + (IF pads /\ ~padFails THEN OggMissing(enc) ELSE 0),
                         !.finished = @ \/ r.err = ""]
        /\ result' = Result("finish", enc, <<>>, r.err, r.calls, <<>>,
                            IF pads THEN SilenceBuffers(enc) ELSE <<>>,
                            IF file THEN WavDataWrites(wavBuffers, enc.numChannels) ELSE <<>>,
                            IF file THEN WavBlob(wavBuffers, enc.numChannels, enc.sampleRate)
                                    ELSE <<>>)
  /\ UNCHANGED <<status, numChannels, audioContext, hasEncoder, stream, sourceNode,
                 scriptProcessor, procs, pending, callbacks, lastCall>>

\* encoder.cancel()
CancelCall(codecFails) ==
  /\ LET r == EncCancel(enc, codecFails)
     IN /\ enc' = r.enc
        /\ wavBuffers' = IF enc.kind = "wav" THEN <<>> ELSE wavBuffers
        /\ history' = [history EXCEPT !.cancelled = @ \/ r.err = ""]
        /\ result' = Result("cancel", enc, <<>>, r.err, r.calls,
                            <<>>, <<>>, <<>>, <<>>)
  /\ UNCHANGED <<status, numChannels, audioContext, hasEncoder, stream, sourceNode,
                 scriptProcessor, procs, pending, callbacks, lastCall>>

EncoderNext ==
  \/ \E frame \in Frames \cup CorruptFrames \cup RaggedFrames, codecFails \in BOOLEAN :
       EncodeCall(frame, codecFails)
  \/ \E codecFails \in BOOLEAN, padFails \in BOOLEAN : FinishCall(codecFails, padFails)
  \/ \E codecFails \in BOOLEAN : CancelCall(codecFails)

EncoderSpec == EncoderInit /\ [][EncoderNext]_vars

\* The capture source reuses the arrays it passed to the encode() that has
\* just returned: whatever the encoder keeps or has passed on in one of those
\* arrays changes with them.
Overwrite ==
  /\ result.op = "encode"
  /\ LET caller == Reused(result.input)
     IN /\ wavBuffers' =
             IF result.owners.stored = <<>> THEN wavBuffers
             ELSE [wavBuffers EXCEPT
                     ![Len(wavBuffers)] = Reload(@, result.owners.stored, caller)]
        /\ result' = [result EXCEPT !.op = "overwrite", !.input = caller,
                                    !.fed = Reload(@, result.owners.fed, caller)]
  /\ UNCHANGED <<enc, history, status, numChannels, audioContext, hasEncoder, stream,
                 sourceNode, scriptProcessor, procs, pending, callbacks, lastCall>>

\* Encoders whose caller reuses its arrays between the calls.
ReuseNext ==
  \/ \E frame \in Frames \cup CorruptFrames \cup RaggedFrames, codecFails \in BOOLEAN :
       EncodeCall(frame, codecFails)
  \/ Overwrite

ReuseSpec == EncoderInit /\ [][ReuseNext]_vars

\* The session with its encoder.
Spec == Init /\ [][Next]_vars

\* The session when the grace timer of a waiting stop() always fires in the
\* end: setTimeout(resolve, 50) is the only thing a stop() waits for.
LiveSpec == Init /\ [][Next]_vars /\ WF_vars(\E codecFails \in BOOLEAN : StopResume(codecFails))

\* ---------------------------------------------------------------- claims

\* Everything of the session but the observation of the last call.
state == <<status, numChannels, audioContext, hasEncoder, enc, stream, sourceNode,
           scriptProcessor, procs, pending, callbacks>>

\* C1: start() while RECORDING fails with AlreadyRecording and start() while
\* PROCESSING fails with StillProcessing; the failure is raised to the caller
\* and the status, the bound stream, the registered frame callback and the
\* encoder are what they were before the call.
C1_StartRejectedWhileBusy ==
  [][(lastCall'.op = "start" /\ status \in {RECORDING, PROCESSING}) =>
       /\ lastCall'.err = (IF status = RECORDING THEN "AlreadyRecording"
                                                ELSE "StillProcessing")
       /\ lastCall'.raised
       /\ UNCHANGED <<status, stream, scriptProcessor, procs, hasEncoder, enc>>]_vars

\* A start() was refused while a stop() was waiting in its grace interval.
C1_Witness ==
  /\ lastCall.op = "start"
  /\ lastCall.err = "StillProcessing"
  /\ status = PROCESSING
  /\ pending # <<>>

\* C2: stop() in any state other than RECORDING fails with NotRecording,
\* changes nothing of the session and does not call encoder.finish().
C2_StopRejectedUnlessRecording ==
  [][(lastCall'.op = "stop" /\ status # RECORDING) =>
       /\ lastCall'.err = "NotRecording"
       /\ lastCall'.raised
       /\ ~Has(lastCall'.trace, "encoder.finish")
       /\ UNCHANGED state]_vars

\* A stop() was refused while an earlier stop() was still being processed.
C2_Witness ==
  /\ lastCall.op = "stop"
  /\ lastCall.pre = PROCESSING
  /\ lastCall.err = "NotRecording"
  /\ status = PROCESSING

\* C3: the session calls encoder.encode() only from a frame callback that
\* found the status RECORDING; a frame delivered in any other status makes no
\* encoder call, emits no event and changes nothing of the session.
C3_EncodeOnlyWhileRecording ==
  [][/\ Has(lastCall'.trace, "encoder.encode") =>
          lastCall'.op = "frame" /\ status = RECORDING
     /\ (lastCall'.op = "frame" /\ status # RECORDING) =>
          /\ lastCall'.trace = <<>>
          /\ lastCall'.sent = NoFrame
          /\ lastCall'.err = ""
          /\ UNCHANGED state]_vars

\* A connected processor delivered a frame while a stop() was being processed.
C3_Witness ==
  /\ lastCall.op = "frame"
  /\ lastCall.pre = PROCESSING
  /\ status = PROCESSING
  /\ procs # {}

\* C4: no encoder.encode() call happens between a stop() moving the session
\* to PROCESSING and that same stop() calling encoder.finish().
C4_NoEncodeDuringGrace ==
  (lastCall.op = "stopResume" /\ Has(lastCall.trace, "encoder.finish")) => ~lastCall.raced

\* C5: a stop() whose encoder.finish() succeeds sets PROCESSING, disconnects
\* the processor and removes its callback, waits the grace interval, calls
\* encoder.finish() once, sets COMPLETE, then emits one completion event and
\* then one data-available event (each when its callback is set), with no
\* status change after COMPLETE.
C5_StopOrder ==
  /\ [](lastCall.op = "stopResume" /\ lastCall.err = "" =>
          LET t == lastCall.trace
              c == Pos(t, "status:complete")
          IN /\ SubSeq(t, 1, 4) =
                  <<"status:processing", "disconnect", "grace", "encoder.finish">>
             /\ Count(t, "encoder.finish") = 1
             /\ c > 4
             /\ status = COMPLETE
             /\ SubSeq(t, c + 1, Len(t)) =
                  (IF onCompleteCallback THEN <<"onComplete">> ELSE <<>>)
                    \o (IF onDataAvailableCallback THEN <<"onDataAvailable">> ELSE <<>>)
             /\ \A i \in 1..c : t[i] \notin {"onComplete", "onDataAvailable", "onError"})
  /\ [][(lastCall'.op = "stop" /\ lastCall'.err = "") =>
          /\ status' = PROCESSING
          /\ procs' = procs \ {scriptProcessor}
          /\ scriptProcessor' = NoProc
          /\ ~sourceNode'
          /\ pending' = Append(pending, [encoded |-> FALSE,
                                         trace |-> <<"status:processing", "disconnect">>])]_vars

\* A stop() of a session with callbacks completed after its grace interval.
C5_Witness ==
  /\ lastCall.op = "stopResume"
  /\ lastCall.err = ""
  /\ status = COMPLETE
  /\ onCompleteCallback
  /\ onDataAvailableCallback
  /\ Has(lastCall.trace, "onDataAvailable")
  /\ enc.kind = "wav"

\* C6: when encoder.finish() fails during stop(), the status becomes ERROR,
\* the failure is raised to the caller of stop(), one error event is emitted
\* (when the callback is set) and no completion or data-available event is.
C6_StopFailure ==
  (lastCall.op = "stopResume" /\ Has(lastCall.trace, "encoder.finish") /\ lastCall.err # "") =>
    /\ status = ERROR
    /\ lastCall.raised
    /\ Has(lastCall.trace, "throw")
    /\ Count(lastCall.trace, "onError") = (IF onErrorCallback THEN 1 ELSE 0)
    /\ ~Has(lastCall.trace, "onComplete")
    /\ ~Has(lastCall.trace, "onDataAvailable")
    /\ ~Has(lastCall.trace, "status:complete")

\* The codec failed in finish() and the session reported it.
C6_Witness ==
  /\ lastCall.op = "stopResume"
  /\ lastCall.err = "EncoderFault"
  /\ Has(lastCall.trace, "codec.finish")
  /\ Has(lastCall.trace, "onError")
  /\ status = ERROR

\* C7: cancel() in INACTIVE or COMPLETE changes nothing; in any other state it
\* disconnects the processor and removes its callback, calls encoder.cancel()
\* on the encoder it holds, stops the tracks, unbinds the stream and sets the
\* status to INACTIVE.
C7_CancelEffect ==
  [][lastCall'.op = "cancel" =>
       IF status \in {INACTIVE, COMPLETE}
         THEN lastCall'.trace = <<>> /\ UNCHANGED state
         ELSE /\ status' = INACTIVE
              /\ stream' = NoStream
              /\ scriptProcessor' = NoProc
              /\ procs' = procs \ {scriptProcessor}
              /\ hasEncoder => Has(lastCall'.trace, "encoder.cancel")
              /\ stream # NoStream => Has(lastCall'.trace, "tracks.stop")]_vars

\* C8: cancel() is idempotent: a second cancel() right after a first one
\* leaves the status as the first left it, raises nothing and makes no
\* encoder call; cancel() while INACTIVE leaves the session INACTIVE.
C8_CancelIdempotent ==
  [][(lastCall.op = "cancel" /\ lastCall'.op = "cancel") =>
       /\ status' = status
       /\ ~lastCall'.raised
       /\ ~Has(lastCall'.trace, "encoder.cancel")
       /\ status = INACTIVE => status' = INACTIVE]_vars

\* C9: cancel() never throws, whatever the state and the encoder variant and
\* also when the codec's cancel() or the release of the tracks fails; it
\* returns with the status INACTIVE (COMPLETE when it found COMPLETE).
C9_CancelNeverThrows ==
  lastCall.op = "cancel" =>
    /\ ~lastCall.raised
    /\ status = (IF lastCall.pre = COMPLETE THEN COMPLETE ELSE INACTIVE)

\* C10: every frame the session hands to encoder.encode() has as many
\* channels as the encoder instance was constructed with.
C10_FrameMatchesEncoder ==
  lastCall.sent # NoFrame => Len(lastCall.sent) = enc.numChannels

\* C11: channel adaptation is total: for a frame of any number n >= 0 of
\* channels and a target of m channels, a wrapper's encode() does not fail on
\* the channel count and arrives at exactly m channels, each as long as the
\* first channel of the input.
C11_AdaptationTotal ==
  (result.op = "encode" /\ result.pre.kind \in {"ogg", "mp3"} /\ result.pre.alive) =>
    /\ result.err # "ChannelCountMismatch"
    /\ Len(result.adapted) = result.pre.numChannels
    /\ \A c \in 1..Len(result.adapted) :
         Len(result.adapted[c]) = FrameLength(result.input)

\* C12: the frame the callback hands to the encoder has, for a source of
\* n >= 1 channels, the source channel min(i, n) as its channel i; a source of
\* two channels feeding a session configured with one channel delivers
\* frames of one channel, the first channel of the source.
C12_AdaptedChannels ==
  [][lastCall'.op = "frame" /\ lastCall'.sent # NoFrame =>
       /\ lastCall'.sent[1] # Silence =>
            \E n \in 1..MaxFrameChannels :
              \A i \in 1..Len(lastCall'.sent) : lastCall'.sent[i] = Min2(i, n)
       /\ (enc.numChannels = 1 /\ stream.reported = 2
             /\ lastCall'.sent = RecorderAdapt(SourceFrame(2), numChannels)) =>
            lastCall'.sent = <<1>>]_vars

\* C13: a wrapper never calls the external codec's finish() while the codec
\* has taken fewer than sampleRate * 0.5 samples per channel since the
\* wrapper was constructed.
C13_NoFinishBelowMinimum ==
  (result.op = "finish" /\ result.pre.kind \in {"ogg", "mp3"}
     /\ Has(result.calls, "codec.finish")) =>
    2 * history.delivered >= result.pre.sampleRate

\* C14: finish() on a wrapper that has encoded at least one frame and holds
\* 0 < totalSamples < sampleRate * 0.5 makes exactly one extra codec encode()
\* call, carrying numChannels channels of ceil(sampleRate * 0.5 - totalSamples)
\* zero samples each, then calls the codec's finish(), and raises no
\* InsufficientData (4096 samples at 48000 Hz are padded to 24000).
C14_PaddingToMinimum ==
  /\ OggMissing([sampleRate |-> 48000, totalSamples |-> 4096]) = 24000 - 4096
  /\ (result.op = "finish" /\ result.pre.kind \in {"ogg", "mp3"} /\ result.pre.alive
        /\ result.pre.bufferCount >= 1 /\ result.pre.totalSamples > 0
        /\ 2 * result.pre.totalSamples < result.pre.sampleRate) =>
       /\ result.calls = <<"codec.encode", "codec.finish">>
       /\ result.fed =
            [c \in 1..result.pre.numChannels |->
               Zeros((result.pre.sampleRate - 2 * result.pre.totalSamples + 1) \div 2)]
       /\ result.err # "InsufficientData"

\* C15: for every variant, finish() on an instance that has encoded no frame
\* fails with NoData, returns no blob and does not call the codec's finish().
C15_FinishWithoutData ==
  (result.op = "finish" /\ result.pre.alive /\ result.pre.bufferCount = 0) =>
    /\ result.err = "NoData"
    /\ result.blob = <<>>
    /\ ~Has(result.calls, "codec.finish")

\* C16: for every variant, encode() on an instance on which cancel() or
\* finish() has returned fails with NotInitialized and passes nothing to the
\* external codec.
C16_EncodeAfterEnd ==
  (result.op = "encode" /\ (history.cancelled \/ history.finished)) =>
    /\ result.err = "NotInitialized"
    /\ result.calls = <<>>
    /\ result.fed = <<>>

\* C17: the file WavAudioEncoder.finish() returns for C channels, rate R and
\* frames of T samples per channel in total is 44 + 2*C*T bytes long and
\* starts with 'RIFF', the file size less 8, 'WAVE', 'fmt ', 16, format 1,
\* C, R, the byte rate R*C*2, the block align C*2, 16 bits, 'data' and the
\* data size 2*C*T, all little-endian; the data loop writes dataSize bytes
\* (three frames of 128 samples in two channels give 1580 bytes).
C17_WavHeader ==
  /\ WavFileSize(3 * 128, 2) = 1580
  /\ (result.op = "finish" /\ result.pre.kind = "wav" /\ result.err = "") =>
       LET b == result.blob
           C == result.pre.numChannels
           R == result.pre.sampleRate
           T == result.pre.totalSamples
       IN /\ Len(b) = 44 + 2 * C * T
          /\ SubSeq(b, 1, 4) = <<82, 73, 70, 70>>
          /\ GetU32(b, 4) = Len(b) - 8
          /\ SubSeq(b, 9, 12) = <<87, 65, 86, 69>>
          /\ SubSeq(b, 13, 16) = <<102, 109, 116, 32>>
          /\ GetU32(b, 16) = 16
          /\ GetU16(b, 20) = 1
          /\ GetU16(b, 22) = C
          /\ GetU32(b, 24) = R
          /\ SubSeq(b, 25, 28) = <<R % 256, (R \div 256) % 256, (R \div 65536) % 256, (R \div 16777216) % 256>>
          /\ GetU32(b, 28) = R * C * 2
          /\ GetU16(b, 32) = C * 2
          /\ GetU16(b, 34) = 16
          /\ SubSeq(b, 37, 40) = <<100, 97, 116, 97>>
          /\ GetU32(b, 40) = 2 * C * T
          /\ \A k \in 1..44 : b[k] \in 0..255
          /\ 2 * Len(result.writes) = 2 * C * T

\* A WAV encoder holding two frames of two channels wrote its file.
C17_Witness ==
  /\ result.op = "finish"
  /\ result.pre.kind = "wav"
  /\ result.err = ""
  /\ result.pre.numChannels = 2
  /\ result.pre.bufferCount = 2
  /\ Len(result.blob) = 44 + 2 * 2 * 4

\* The samples per channel of the frames before frame i of the list.
RECURSIVE SamplesBefore(_, _)
SamplesBefore(bufs, i) ==
  IF i <= 1 THEN 0 ELSE FrameLength(bufs[i - 1]) + SamplesBefore(bufs, i - 1)

\* C18: in the file of WavAudioEncoder.finish(), sample j of channel c of the
\* i-th accepted frame (j and c counted from 0) lies at byte offset
\* 44 + 2*((L_1 + ... + L_(i-1) + j)*C + c), the frames in encode() order and
\* the channels interleaved per sample; every 16-bit slot of the data chunk
\* is written exactly once.
C18_WavLayout ==
  [][(result'.op = "finish" /\ enc.kind = "wav" /\ result'.err = "") =>
       LET C == enc.numChannels
           ws == result'.writes
       IN /\ \A i \in 1..Len(wavBuffers) :
               \A j \in 0..(FrameLength(wavBuffers[i]) - 1), c \in 0..(C - 1) :
                 LET off == 44 + 2 * ((SamplesBefore(wavBuffers, i) + j) * C + c)
                 IN /\ GetI16(result'.blob, off) = WavInt16(wavBuffers[i][c + 1][j + 1])
                    /\ Cardinality({k \in 1..Len(ws) : ws[k].off = off}) = 1
          /\ \A k \in 0..((Len(result'.blob) - 44) \div 2 - 1) :
               Cardinality({w \in 1..Len(ws) : ws[w].off = 44 + 2 * k}) = 1
          /\ \A w \in 1..Len(ws) : Len(ws[w].bytes) = 2]_vars

\* A WAV encoder wrote two frames of two channels, of different lengths and
\* not silent, into its file.
C18_Witness ==
  /\ result.op = "finish"
  /\ result.pre.kind = "wav"
  /\ result.err = ""
  /\ result.pre.numChannels = 2
  /\ result.pre.bufferCount = 2
  /\ result.pre.totalSamples = 3
  /\ Len(result.writes) = 6
  /\ \A k \in 1..6 : result.writes[k].bytes # <<0, 0>>

\* Every sample of every frame of the list is 0.
AllSilent(bufs) ==
  \A i \in 1..Len(bufs) : \A c \in 1..Len(bufs[i]) : \A j \in 1..Len(bufs[i][c]) :
    bufs[i][c][j] = 0

\* C19: when every accepted frame is silent, reading back the file of
\* WavAudioEncoder.finish() gives a RIFF/WAVE header whose data size is
\* totalFrames * channelCount * 2 and samples that are all 0.
C19_SilenceRoundTrip ==
  [][(result'.op = "finish" /\ enc.kind = "wav" /\ result'.err = ""
        /\ AllSilent(wavBuffers)) =>
       LET w == ParseWav(result'.blob)
       IN /\ w.riff = RIFF
          /\ w.wave = WAVE
          /\ w.dataSize = WavTotalFrames(wavBuffers) * enc.numChannels * 2
          /\ Len(w.samples) * 2 = w.dataSize
          /\ \A k \in 1..Len(w.samples) : w.samples[k] = 0]_vars

\* A WAV encoder wrote a file from two silent frames of two channels.
C19_Witness ==
  /\ result.op = "finish"
  /\ result.pre.kind = "wav"
  /\ result.err = ""
  /\ result.pre.numChannels = 2
  /\ result.pre.bufferCount = 2
  /\ Len(result.writes) = 8
  /\ \A k \in 1..8 : result.writes[k].bytes = <<0, 0>>

\* C20: WavAudioEncoder.encode() with a frame whose channel count differs
\* from the configured one fails with ChannelCountMismatch and leaves the
\* accumulation list as it was.
C20_WavChannelMismatch ==
  [][(result'.op = "encode" /\ enc.kind = "wav"
        /\ Len(result'.input) # enc.numChannels) =>
       /\ result'.err = "ChannelCountMismatch"
       /\ wavBuffers' = wavBuffers
       /\ enc' = enc]_vars

\* A WAV encoder holding a frame refused a frame of another channel count.
C20_Witness ==
  /\ result.op = "encode"
  /\ result.pre.kind = "wav"
  /\ result.err = "ChannelCountMismatch"
  /\ Len(result.input) = 1
  /\ result.pre.numChannels = 2
  /\ Len(wavBuffers) = 1
  /\ FrameLength(wavBuffers[1]) > 0

\* C21: WavAudioEncoder.encode() rejects a frame of the right channel count
\* whose channels differ in length, so that finish() never fails because of
\* a length mismatch.
C21_WavValidatesLengths ==
  /\ (result.op = "encode" /\ result.pre.kind = "wav"
        /\ Len(result.input) = result.pre.numChannels
        /\ \E c \in 1..Len(result.input) : Len(result.input[c]) # Len(result.input[1])) =>
       result.err # ""
  /\ (result.op = "finish" /\ result.pre.kind = "wav") =>
       result.err # "ChannelLengthMismatch"

\* C22: a WavAudioEncoder is single-use.  A successful finish() empties the
\* accumulation and a failing one leaves it as it was; cancel() empties it
\* and produces nothing; a finish() that directly follows a successful
\* finish() or a cancel() fails with NoData and produces no file.
C22_WavSingleUse ==
  [][enc.kind = "wav" =>
       /\ (result'.op = "finish" /\ result'.err = "") =>
            wavBuffers' = <<>> /\ enc'.bufferCount = 0
       /\ (result'.op = "finish" /\ result'.err # "") =>
            wavBuffers' = wavBuffers /\ enc' = enc /\ result'.blob = <<>>
       /\ (/\ result'.op = "finish"
           /\ \/ result.op = "finish" /\ result.err = ""
              \/ result.op = "cancel") =>
            result'.err = "NoData" /\ result'.blob = <<>>
       /\ result'.op = "cancel" =>
            /\ result'.err = "" /\ wavBuffers' = <<>> /\ enc'.bufferCount = 0
            /\ result'.blob = <<>> /\ result'.writes = <<>>]_vars

C22_Witness ==
  /\ enc.kind = "wav" /\ result.op = "finish" /\ result.err = "NoData"
  /\ history.finishes = 2 /\ history.finished /\ ~history.cancelled
  /\ wavBuffers = <<>> /\ enc.bufferCount = 0

\* What the sanitizer is to make of a sample: 0 when it is not finite, and
\* otherwise the sample clamped to magnitude lim.
Sanitized(x, lim) == IF x \in {NaN, PosInf, NegInf} THEN 0 ELSE Max2(-lim, Min2(lim, x))

\* A wrapper's encode() hands the codec the sanitized samples of the adapted
\* frame: finite and of magnitude at most 0.9999 (OGG) or 1.0 (MP3).
C23_CodecFedSanitized ==
  (result'.op = "encode" /\ result'.fed # <<>>) =>
    LET lim == IF enc.kind = "ogg" THEN 9999 ELSE 10000
    IN /\ Len(result'.fed) = Len(result'.adapted)
       /\ \A c \in 1..Len(result'.fed) :
            /\ Len(result'.fed[c]) = Len(result'.adapted[c])
            /\ \A j \in 1..Len(result'.fed[c]) :
                 /\ result'.fed[c][j] = Sanitized(result'.adapted[c][j], lim)
                 /\ result'.fed[c][j] \in (-lim)..lim

\* The file of WavAudioEncoder.finish() holds, for every stored sample, the
\* 16-bit value of the sanitized sample.
C23_WavPcmSanitized ==
  (result'.op = "finish" /\ enc.kind = "wav" /\ result'.err = "") =>
    \A i \in 1..Len(wavBuffers) :
      \A j \in 0..(FrameLength(wavBuffers[i]) - 1), c \in 0..(enc.numChannels - 1) :
        LET off == 44 + 2 * ((SamplesBefore(wavBuffers, i) + j) * enc.numChannels + c)
            s == Sanitized(wavBuffers[i][c + 1][j + 1], 10000)
        IN GetI16(result'.blob, off) =
             IF s < 0 THEN -((-s * 32768) \div 10000) ELSE (s * 32767) \div 10000

\* C23: on every encoder path a sample that is not finite becomes 0 and a
\* finite one is clamped (to 0.9999 for OGG, to 1.0 for MP3 and WAV) in what
\* reaches the codec or the PCM data of the WAV file.
C23_SamplesSanitized == [][C23_CodecFedSanitized /\ C23_WavPcmSanitized]_vars

\* C24: encode() neither writes to the caller's arrays nor keeps them: when
\* it returns they hold the frame they were given, and when the capture
\* source overwrites them afterwards, the frames of the WAV accumulation and
\* the buffers passed to the codec stay as they were.
C24_CallerBuffersUntouched ==
  [][/\ result'.op = "encode" =>
          \E frame \in Frames \cup CorruptFrames \cup RaggedFrames :
            /\ result'.input = frame
            /\ (enc.kind = "wav" /\ result'.err = "") => wavBuffers' = Append(wavBuffers, frame)
     /\ result'.op = "overwrite" =>
          /\ wavBuffers' = wavBuffers
          /\ result'.fed = result.fed
          /\ result'.input # result.input \/ FrameLength(result.input) = 0]_vars

\* The arrays of a frame that a WAV encoder has just stored were overwritten
\* with other samples.
C24_Witness ==
  /\ result.op = "overwrite"
  /\ FrameLength(result.input) > 0
  /\ enc.kind = "wav"
  /\ result.owners.stored # <<>>
  /\ Last(wavBuffers) # result.input

\* C25: a failure while the callback processes a frame stays inside the
\* callback: the callback returns normally whatever happens to the frame, and
\* a failure is delivered once through the error callback (when one is set);
\* a frame that does not fail delivers no error.
C25_FrameFailureCaught ==
  lastCall.op = "frame" =>
    /\ ~lastCall.raised
    /\ Count(lastCall.trace, "onError") =
         (IF lastCall.err # "" /\ onErrorCallback THEN 1 ELSE 0)
    /\ (lastCall.err # "" /\ onErrorCallback) => Last(lastCall.trace) = "onError"

\* The encoder threw on a frame of a recording whose error callback is set.
C25_Witness ==
  /\ lastCall.op = "frame"
  /\ lastCall.err # ""
  /\ onErrorCallback
  /\ Has(lastCall.trace, "encoder.encode")
  /\ Has(lastCall.trace, "onError")

\* C26: when encode() fails on a frame of a recording, the session goes to
\* ERROR and reports one error for the recording; every later frame is dropped.
C26_EncodeFailureEndsRecording ==
  [][/\ (lastCall'.op = "frame" /\ lastCall'.err # "") => status' = ERROR
     /\ (lastCall.op = "frame" /\ lastCall.err # "" /\ lastCall'.op = "frame") =>
          /\ ~Has(lastCall'.trace, "encoder.encode")
          /\ ~Has(lastCall'.trace, "onError")
          /\ enc' = enc]_vars

\* C27: after a stop() that failed and left the session in ERROR, start() is
\* refused until cancel() or cleanup() has run: the session never goes from
\* ERROR to RECORDING.
C27_NoStartFromError ==
  [][(/\ status = ERROR
      /\ lastCall.op \in {"stop", "stopResume"}
      /\ lastCall.err \notin {"", "NotRecording"}
      /\ lastCall'.op = "start") =>
       lastCall'.raised /\ status' # RECORDING]_vars

\* C28: when cleanup() is over, the session is INACTIVE and holds no encoder,
\* audio context, script processor, source node or stream.
C28_CleanupReleasesAll ==
  lastCall.op = "cleanup" =>
    /\ status = INACTIVE
    /\ ~hasEncoder
    /\ ~audioContext
    /\ scriptProcessor = NoProc
    /\ ~sourceNode
    /\ stream = NoStream

\* C28 for the calls of cleanup() that return normally.
C28_ReturnedCleanupReleasesAll ==
  (lastCall.op = "cleanup" /\ ~lastCall.raised) =>
    /\ status = INACTIVE
    /\ ~hasEncoder
    /\ ~audioContext
    /\ scriptProcessor = NoProc
    /\ ~sourceNode
    /\ stream = NoStream

\* C29: once cleanup() has released the audio context, the session is inert:
\* whatever is called or delivered afterwards, a stop() resuming from its
\* grace interval included, the state stays INACTIVE, no method of the
\* encoder is called and no completion event is emitted.
C29_InertAfterCleanup ==
  [][~audioContext =>
       /\ status' = INACTIVE
       /\ ~Has(lastCall'.trace, "encoder.encode")
       /\ ~Has(lastCall'.trace, "encoder.finish")
       /\ ~Has(lastCall'.trace, "encoder.cancel")
       /\ ~Has(lastCall'.trace, "onComplete")]_vars

\* The moves of the session state the lifecycle allows to an operation.
AllowedMove(from, to, op) ==
  \/ to = from
  \/ from = INACTIVE /\ to = RECORDING
  \/ from = RECORDING /\ to = PROCESSING
  \/ from = PROCESSING /\ to = COMPLETE
  \/ to = ERROR
  \/ to = INACTIVE /\ op \in {"cancel", "cleanup"}

\* C30: every operation moves the session state along INACTIVE, RECORDING,
\* PROCESSING, COMPLETE, or to ERROR, or (cancel() and cleanup() only) to
\* INACTIVE, and PAUSED is never reached.
C30_MonotonicTransitions ==
  [][AllowedMove(status, status', lastCall'.op) /\ status' # PAUSED]_vars

\* C31: no operation blocks.  When the grace timer is scheduled fairly,
\* every stop() that set PROCESSING and went to wait settles; when it
\* settles it has returned a blob or raised and the session is not
\* PROCESSING; start() and cancel() are over in the step they are called in
\* and leave nothing waiting.  The waiting calls resume oldest first, so
\* each of them settles when, as long as one is waiting, another resumption
\* is always still to come: that is what the first two conjuncts say.
C31_NoOperationBlocks ==
  /\ (pending # <<>> /\ lastCall.op # "stopResume") ~> (lastCall.op = "stopResume")
  /\ []<>(pending = <<>> \/ lastCall.op # "stopResume")
  /\ (status = PROCESSING) ~> (status # PROCESSING)
  /\ [](lastCall.op = "stopResume" =>
         /\ status \in {COMPLETE, ERROR}
         /\ lastCall.raised = (lastCall.err # "")
         /\ lastCall.raised = (status = ERROR))
  /\ [][lastCall'.op \in {"start", "cancel"} => pending' = pending]_vars

\* A stop() that waited in PROCESSING has resumed and returned its blob, and
\* no other one is waiting.
C31_Witness ==
  /\ lastCall.op = "stopResume"
  /\ lastCall.pre = PROCESSING
  /\ ~lastCall.raised
  /\ pending = <<>>
  /\ status = COMPLETE

\* C32: finish() of the OGG wrapper validates before it calls the codec: it
\* fails when no frame was recorded and fails with 'Insufficient audio data'
\* when totalSamples < sampleRate * 0.5, and in both cases neither finish()
\* nor any other method of the codec is called.
C32_OggFinishValidates ==
  (result.op = "finish" /\ result.pre.kind = "ogg" /\ result.pre.alive) =>
    /\ result.pre.bufferCount = 0 =>
         result.err = "NoData" /\ result.calls = <<>>
    /\ (result.pre.bufferCount > 0 /\ 2 * result.pre.totalSamples < result.pre.sampleRate) =>
         result.err = "InsufficientData" /\ result.calls = <<>>

\* C33: a WAV recording has no minimum duration: a stop() accepted after a
\* successful start() resolves with a blob and leaves the session COMPLETE,
\* also when no frame was delivered before it.
C33_WavStopAlwaysCompletes ==
  [][(/\ enc.kind = "wav"
      /\ lastCall.op = "stop" /\ lastCall.err = "" /\ lastCall.pre = RECORDING
      /\ Len(pending) = 1
      /\ lastCall'.op = "stopResume") =>
       /\ lastCall'.err = ""
       /\ ~lastCall'.raised
       /\ status' = COMPLETE]_vars

C35_CancelledStopIsSilent ==
  [][(status = INACTIVE /\ lastCall'.op = "stopResume") =>
       /\ status' = INACTIVE
       /\ ~Has(lastCall'.trace, "encoder.finish")
       /\ ~Has(lastCall'.trace, "onComplete")
       /\ ~Has(lastCall'.trace, "onDataAvailable")
       /\ ~Has(lastCall'.trace, "onError")]_vars

\* C36: the session never has more than one frame callback registered, and
\* has one only while it is RECORDING.
C36_OneCallbackWhileRecording ==
  /\ Cardinality(procs) <= 1
  /\ procs # {} => status = RECORDING
  /\ procs \subseteq {scriptProcessor}

\* C37: the session is reusable after cancel(): in the recording a later
\* start() begins, no frame fails because the encoder is gone, and the stop()
\* of that recording does not fail for that reason either.
C37_ReusableAfterCancel ==
  [][/\ (status = RECORDING /\ hasEncoder /\ lastCall'.op = "frame") =>
          lastCall'.err # "NotInitialized"
     /\ (/\ lastCall.op = "stop" /\ lastCall.err = "" /\ Len(pending) = 1
         /\ hasEncoder /\ lastCall'.op = "stopResume") =>
          lastCall'.err # "NotInitialized"]_vars

\* An encode() of a wrapper counts a frame exactly when the codec took it.
C38_EncodeCounts ==
  (result'.op = "encode" /\ enc.kind # "wav") =>
    LET took == result'.err = "" /\ Has(result'.calls, "codec.encode")
    IN /\ enc'.bufferCount = enc.bufferCount + (IF took THEN 1 ELSE 0)
       /\ enc'.totalSamples =
            enc.totalSamples + (IF took THEN Len(result'.fed[1]) ELSE 0)

\* The counters of a wrapper are 0 after a cancel() that returned.
C38_CancelResets ==
  (result'.op = "cancel" /\ enc.kind # "wav" /\ result'.err = "") =>
    enc'.bufferCount = 0 /\ enc'.totalSamples = 0

\* The counters of a wrapper are 0 after a finish() that returned.
C38_FinishResets ==
  (result'.op = "finish" /\ enc.kind # "wav" /\ result'.err = "") =>
    enc'.bufferCount = 0 /\ enc'.totalSamples = 0

\* C38: in the OGG and MP3 wrappers bufferCount is the number of frames and
\* totalSamples the number of samples per channel that the codec took for
\* the current recording: an encode() that fails or is skipped changes
\* neither, and both are 0 after cancel() and after finish().
C38_WrapperCounters ==
  [][C38_EncodeCounts /\ C38_CancelResets /\ C38_FinishResets]_vars

\* The other of the two wrappers.
OtherWrapper(kind) == IF kind = "ogg" THEN "mp3" ELSE "ogg"

\* C39: the channel adaptation of the frame callback and those of the OGG and
\* the MP3 wrapper are one algorithm: for a frame of n >= 0 channels and a
\* target of 1 or 2 channels, all three arrive at the same list of channels
\* and all three succeed or all three fail.
C39_AdaptersAgree ==
  (result.op = "encode" /\ result.pre.kind # "wav" /\ result.pre.alive) =>
    LET f == result.input
        m == result.pre.numChannels
        other == EncEncode([result.pre EXCEPT !.kind = OtherWrapper(result.pre.kind)], f,
                           FrameLength(f), FALSE)
        accepted == result.err \in {"", "EncoderFault"}
    IN /\ result.adapted = Adapted(OtherWrapper(result.pre.kind), f, m)
       /\ Len(result.adapted) = Len(RecorderAdapt(f, m))
       /\ \A c \in 1..Len(result.adapted) : result.adapted[c] = RecorderAdapt(f, m)[c]
       /\ accepted = (other.err = "")
       /\ accepted = (Len(RecorderAdapt(f, m)) = m)

\* C39 for the frames that have a channel.
C39_AdaptersAgreeWithChannels ==
  (result.op = "encode" /\ result.pre.kind # "wav" /\ result.pre.alive
     /\ Len(result.input) > 0) =>
    LET f == result.input
        m == result.pre.numChannels
        other == EncEncode([result.pre EXCEPT !.kind = OtherWrapper(result.pre.kind)], f,
                           FrameLength(f), FALSE)
        accepted == result.err \in {"", "EncoderFault"}
    IN /\ result.adapted = Adapted(OtherWrapper(result.pre.kind), f, m)
       /\ result.adapted = RecorderAdapt(f, m)
       /\ accepted = (other.err = "")
       /\ accepted = (Len(RecorderAdapt(f, m)) = m)

\* A start() that got past its guards and failed while binding the stream.
FailedStart == lastCall'.op = "start" /\ lastCall'.err \in {"NotInitialized", "CaptureFault"}

\* C40: when binding the capture source fails inside start(), the session
\* ends in ERROR, one error event is emitted, the failure is raised to the
\* caller and no frame callback is left registered.
C40_FailedStart ==
  [][FailedStart =>
       /\ status' = ERROR
       /\ lastCall'.raised
       /\ Count(lastCall'.trace, "onError") = (IF onErrorCallback THEN 1 ELSE 0)
       /\ procs' = {}]_vars

\* C40 with "the failed start() registered no frame callback" in the place
\* of "none is registered".
C40_FailedStartRegistersNothing ==
  [][FailedStart =>
       /\ status' = ERROR
       /\ lastCall'.raised
       /\ Count(lastCall'.trace, "onError") = (IF onErrorCallback THEN 1 ELSE 0)
       /\ procs' = procs]_vars

====
